---- MODULE Spec2Model ----
(***************************************************************************)
(* Model of the trend-ingestion pipeline: the ProgressManager singleton    *)
(* (utils/progress-manager.ts), the TrendScraper orchestrator              *)
(* (scrapers/TrendScraper.ts), the Apify job sources' submit/poll/fetch    *)
(* protocol and the POST /api/scrape handler that drives them; and the     *)
(* earlier TrendScraper, whose scrapeAxios and scrapePuppeteer fall back   *)
(* on a cascade of extraction strategies.                                  *)
(***************************************************************************)
EXTENDS Integers, Sequences, FiniteSets, TLC

(***************************************************************************)
(* Bounds of the model.                                                    *)
(***************************************************************************)
MaxErrors == 2
MaxTrends == 2

(***************************************************************************)
(* Strings.  A string is a sequence of one-character strings, so that      *)
(* String.prototype.split and String.prototype.includes are computed, not  *)
(* assumed.                                                                *)
(***************************************************************************)
SP == " "

RECURSIVE JoinWords(_)
JoinWords(ws) ==
  IF Len(ws) = 0 THEN << >>
  ELSE IF Len(ws) = 1 THEN ws[1]
  ELSE ws[1] \o <<SP>> \o JoinWords(Tail(ws))

W_Apify     == <<"A","p","i","f","y">>
W_TikTok    == <<"T","i","k","T","o","k">>
W_Instagram == <<"I","n","s","t","a","g","r","a","m">>
W_Hashtag   == <<"H","a","s","h","t","a","g">>
W_Trends    == <<"T","r","e","n","d","s">>
W_Stats     == <<"S","t","a","t","s">>
W_Trends24  == <<"T","r","e","n","d","s","2","4">>
W_XTwitter  == <<"(","X","/","T","w","i","t","t","e","r",")">>
W_XTwitterO == <<"(","X","/","T","w","i","t","t","e","r">>
W_USClose   == <<"U","S",")">>
W_Pinterest == <<"P","i","n","t","e","r","e","s","t">>
W_Creative  == <<"C","r","e","a","t","i","v","e">>
W_Center    == <<"C","e","n","t","e","r">>

\* The names of the three configured sources (TrendSource.name).
NameTikTok    == JoinWords(<<W_Apify, W_TikTok, W_Hashtag, W_Trends>>)
NameInstagram == JoinWords(<<W_Apify, W_Instagram, W_Hashtag, W_Stats>>)
NameTrends24  == JoinWords(<<W_Trends24, W_XTwitter>>)
\* A name no tracked source contains.
NamePinterest == JoinWords(<<W_Pinterest, W_Trends>>)

\* Names of sources of the earlier configuration.
NameApifyPinterest == JoinWords(<<W_Apify, W_Pinterest, W_Trends>>)
NameTikTokCC       == JoinWords(<<W_TikTok, W_Creative, W_Center>>)

\* initializeScraping's defaultSources.
defaultSources ==
  << NameTikTok, NameInstagram, JoinWords(<<W_Trends24, W_XTwitterO, W_USClose>>) >>

\* sourceName.split(' ')[0]: the characters before the first space.
RECURSIVE FirstToken(_)
FirstToken(s) ==
  IF Len(s) = 0 \/ Head(s) = SP THEN << >>
  ELSE <<Head(s)>> \o FirstToken(Tail(s))

\* s.includes(t): t occurs in s as a contiguous substring.
Includes(s, t) ==
  \E i \in 0..(Len(s) - Len(t)) : SubSeq(s, i + 1, i + Len(t)) = t

(***************************************************************************)
(* ProgressManager.  The tracker's status object is the record `status`;   *)
(* every method is an operator from the status before to the status after. *)
(* Dates (startTime, lastUpdate, completedTime) are not modelled.  The     *)
(* aggregate progress is an exact fraction <<numerator, denominator>>.     *)
(***************************************************************************)
\* null (never a string of the model: its one element is not a character).
Null == <<"null">>
\* An absent optional string (details, error).
None == "undefined"
\* An optional argument: given with a value, or left out.
Some(v)   == [ defined |-> TRUE, value |-> v ]
Undefined == [ defined |-> FALSE, value |-> << >> ]

Frac(n, d) == <<n, d>>
FracEq(p, q) == p[2] # 0 /\ q[2] # 0 /\ p[1] * q[2] = q[1] * p[2]

\* The status the private constructor and reset() build.
EmptyStatus ==
  [ isRunning        |-> FALSE,
    currentSource    |-> Null,
    progress         |-> Frac(0, 1),
    totalSources     |-> 0,
    completedSources |-> 0,
    trends           |-> << >>,
    errors           |-> << >>,
    sources          |-> << >> ]

PendingEntry(name) ==
  [ name |-> name, status |-> "pending", progress |-> 0, trends |-> 0,
    details |-> "Waiting to start...", error |-> None ]

initializeScraping(sourceNames) ==
  LET sourcesToInitialize ==
        IF sourceNames.defined THEN sourceNames.value ELSE defaultSources
  IN  [ isRunning        |-> TRUE,
        currentSource    |-> Null,
        progress         |-> Frac(0, 1),
        totalSources     |-> Len(sourcesToInitialize),
        completedSources |-> 0,
        trends           |-> << >>,
        errors           |-> << >>,
        sources          |-> [ i \in 1..Len(sourcesToInitialize) |->
                                 PendingEntry(sourcesToInitialize[i]) ] ]

\* sources.findIndex(s => s.name.includes(sourceName.split(' ')[0])),
\* 1-based; 0 stands for -1.
FindSourceIndex(sources, sourceName) ==
  LET hits == { i \in 1..Len(sources) : Includes(sources[i].name, FirstToken(sourceName)) }
  IN  IF hits = {} THEN 0 ELSE CHOOSE i \in hits : \A j \in hits : i <= j

IsTerminal(s) == s = "completed" \/ s = "failed"

\* Mutant: failed sources are not counted.
CountTerminal_CompletedOnly(sources) ==
  Cardinality({ i \in 1..Len(sources) : sources[i].status = "completed" })

\* sources.filter(s => s.status === 'completed' || s.status === 'failed').length
CountTerminal(sources) ==
  Cardinality({ i \in 1..Len(sources) : IsTerminal(sources[i].status) })

\* The entry updateSourceProgress writes over the old one.
UpdatedEntry(old, st, progress, trends, details, error) ==
  [ old EXCEPT !.status = st, !.progress = progress, !.trends = trends,
               !.details = details, !.error = error ]

\* Mutant: the entry is written but the aggregate is not recomputed.
updateSourceProgress_NoRecount(s, sourceName, st, progress, trends, details, error) ==
  LET sourceIndex == FindSourceIndex(s.sources, sourceName) IN
  IF sourceIndex # 0
  THEN [ s EXCEPT !.sources[sourceIndex] =
                    UpdatedEntry(s.sources[sourceIndex], st, progress, trends, details, error),
                  !.currentSource = IF st = "running" THEN sourceName ELSE Null ]
  ELSE s

\* Mutant: currentSource is set whether or not the name was found.
updateSourceProgress_MarksCurrent(s, sourceName, st, progress, trends, details, error) ==
  LET sourceIndex == FindSourceIndex(s.sources, sourceName) IN
  IF sourceIndex # 0
  THEN LET srcs == [ s.sources EXCEPT ![sourceIndex] =
                       UpdatedEntry(s.sources[sourceIndex], st, progress, trends, details, error) ]
           done == CountTerminal(srcs)
       IN  [ s EXCEPT !.sources          = srcs,
                      !.currentSource    = IF st = "running" THEN sourceName ELSE Null,
                      !.completedSources = done,
                      !.progress         = Frac(done * 100, s.totalSources) ]
  ELSE [ s EXCEPT !.currentSource = IF st = "running" THEN sourceName ELSE Null ]

updateSourceProgress(s, sourceName, st, progress, trends, details, error) ==
  LET sourceIndex == FindSourceIndex(s.sources, sourceName) IN
  IF sourceIndex # 0
  THEN LET srcs == [ s.sources EXCEPT ![sourceIndex] =
                       UpdatedEntry(s.sources[sourceIndex], st, progress, trends, details, error) ]
           done == CountTerminal(srcs)
       IN  [ s EXCEPT !.sources          = srcs,
                      !.currentSource    = IF st = "running" THEN sourceName ELSE Null,
                      !.completedSources = done,
                      !.progress         = Frac(done * 100, s.totalSources) ]
  ELSE s

completeScraping(s, trends) ==
  [ s EXCEPT !.isRunning = FALSE, !.progress = Frac(100, 1), !.trends = trends ]

addError(s, error) ==
  [ s EXCEPT !.errors = Append(s.errors, error) ]

(***************************************************************************)
(* getStatus().  `{ ...this.status }` copies the top-level fields into a   *)
(* new object; the sources, errors and trends fields of the copy hold the  *)
(* same array objects as the tracker.  A snapshot records its own copies   *)
(* of the scalar fields and, in `live`, which of its three arrays are      *)
(* still the tracker's own array objects; an array of the snapshot that is *)
(* live has the tracker's contents, one that is no longer live keeps its   *)
(* own contents.                                                           *)
(***************************************************************************)
ArrayFields == {"sources", "errors", "trends"}

NoSnap ==
  [ taken |-> FALSE, isRunning |-> FALSE, currentSource |-> Null,
    progress |-> Frac(0, 1), totalSources |-> 0, completedSources |-> 0,
    sources |-> << >>, errors |-> << >>, trends |-> << >>, live |-> {} ]

getStatus(s) ==
  [ taken |-> TRUE, isRunning |-> s.isRunning, currentSource |-> s.currentSource,
    progress |-> s.progress, totalSources |-> s.totalSources,
    completedSources |-> s.completedSources,
    sources |-> << >>, errors |-> << >>, trends |-> << >>, live |-> ArrayFields ]

\* The snapshot after the tracker has replaced the array objects `fields` of
\* its status by new ones: the snapshot keeps the old arrays.
Detached(sn, s, fields) ==
  [ sn EXCEPT !.sources = IF "sources" \in sn.live \cap fields THEN s.sources ELSE @,
              !.errors  = IF "errors"  \in sn.live \cap fields THEN s.errors  ELSE @,
              !.trends  = IF "trends"  \in sn.live \cap fields THEN s.trends  ELSE @,
              !.live    = @ \ fields ]

\* What the holder of the snapshot reads in an array field.
SnapArray(sn, s, f) ==
  IF f \in sn.live
  THEN (IF f = "sources" THEN s.sources ELSE IF f = "errors" THEN s.errors ELSE s.trends)
  ELSE (IF f = "sources" THEN sn.sources ELSE IF f = "errors" THEN sn.errors ELSE sn.trends)

(***************************************************************************)
(* State.                                                                  *)
(*   status      ProgressManager.status (the process-wide tracker)         *)
(*   snap        an object returned by getStatus() and kept by its caller  *)
(*   isRunning   TrendScraper.isRunning                                    *)
(*   calls       the activations of scrapeAllSources: each one's position  *)
(*               (the await it is suspended at) and local variables        *)
(*   apifyToken  whether process.env.APIFY_TOKEN is set                    *)
(***************************************************************************)
VARIABLES status, snap, isRunning, calls, apifyToken

trackerVars == <<status, snap>>
orchVars    == <<isRunning, calls, apifyToken>>
vars        == <<status, snap, isRunning, calls, apifyToken>>

\* Activations of scrapeAllSources the model follows.
NumCalls == 2
Calls == 1..NumCalls

\* Records one extraction can return.
MaxRecords == 1

\* The poll loop's maxAttempts.
maxAttempts == 20

\* TrendScraper.sources, in configured order.  usesJob: the source's
\* extractionLogic drives an Apify actor run (submit, poll, fetch dataset);
\* otherwise it parses the fetched document.
Sources ==
  << [ name |-> NameTikTok,    scrapeMethod |-> "axios", usesJob |-> TRUE  ],
     [ name |-> NameInstagram, scrapeMethod |-> "axios", usesJob |-> TRUE  ],
     [ name |-> NameTrends24,  scrapeMethod |-> "axios", usesJob |-> FALSE ] >>

\* Sources of the earlier TrendScraper: two job sources, the browser-driven
\* TikTok Creative Center and Trends24.  (ApifyInstagramSource, second of its
\* five sources, is a job source like the first and the third, with a poll
\* loop of 25 attempts; it is not among the sources followed.)
LegacySources ==
  << [ name |-> NameTikTok,         scrapeMethod |-> "axios",     usesJob |-> TRUE  ],
     [ name |-> NameApifyPinterest, scrapeMethod |-> "axios",     usesJob |-> TRUE  ],
     [ name |-> NameTikTokCC,       scrapeMethod |-> "puppeteer", usesJob |-> FALSE ],
     [ name |-> NameTrends24,       scrapeMethod |-> "axios",     usesJob |-> FALSE ] >>

\* this.sources of an instance of the earlier TrendScraper, as indices into
\* LegacySources: the four sources, or two job sources and a document source.
LegacyConfigs == { << 1, 2, 3, 4 >>, << 1, 2, 4 >> }

\* sourcePlatformMapping.get(name)
sourcePlatformMapping(name) ==
  IF name = NameTikTok THEN "TikTok"
  ELSE IF name = NameInstagram THEN "Instagram"
  ELSE IF name = W_Trends24 THEN "X (Twitter)"
  ELSE None

\* Run statuses of the job API.
Statuses == { "RUNNING", "SUCCEEDED", "FAILED", "TIMED_OUT", "ABORTED" }
TerminalStatuses == Statuses \ { "RUNNING" }
\* A status request that fails in transport (axios.get rejects).
TransportError == "transport error"

AlreadyRunningResult == [ trends |-> << >>, report |-> "Scraping already in progress" ]
NoResult == [ trends |-> << >>, report |-> None ]

\* A document with nothing in it (also: no document fetched yet).
NoPage == [ hashtags |-> << >>, texts |-> << >>, hrefs |-> << >> ]

\* The record of one iteration's extraction: whether extractionLogic has
\* returned and what, whether applyFallbackExtraction was called, the
\* strategies it ran, whether one of them threw, the records accumulated
\* when it called analyzeContent and how many times it called it.
NoCascade ==
  [ returned |-> FALSE, extracted |-> << >>, ran |-> FALSE, log |-> << >>,
    threw |-> FALSE, before |-> << >>, aiCalls |-> 0 ]

\* An activation that has not been called yet.  (browser: this activation
\* launched the browser, which is still open; timedOut: the sources of this
\* run whose job was still RUNNING when its poll loop gave up;
\* platformFilter: the argument of the call; issued: for each source the loop
\* has started, in order, the last updateSourceProgress call made for it;
\* openPages: the pages this activation opened and has not closed;
\* persisted: the positions of the last batch saved whose Trend.create
\* resolved.)
IdleCall ==
  [ pc |-> "idle", kind |-> "direct", sourcesToScrape |-> << >>, i |-> 0,
    allTrends |-> << >>,
    scrapingStats |-> [ totalSources |-> 0, completedSources |-> 0,
                        successfulSources |-> 0, errors |-> << >> ],
    trends |-> << >>, runStatus |-> None, attempts |-> 0,
    pollLog |-> << >>, result |-> NoResult,
    page |-> NoPage, cascade |-> NoCascade, browser |-> FALSE, timedOut |-> << >>,
    platformFilter |-> Undefined, issued |-> << >>, openPages |-> 0,
    persisted |-> {} ]

OrchIdle ==
  /\ isRunning = FALSE
  /\ calls = [ c \in Calls |-> IdleCall ]
  /\ apifyToken = TRUE
(***************************************************************************)
(* The tracker driven by arbitrary callers: every public method, called    *)
(* with arguments from small sets, in any order.                           *)
(***************************************************************************)
\* Argument lists of initializeScraping.
InitLists == { Undefined, Some(<<NameInstagram, NameTrends24>>), Some(<< >>) }

UpdateNames == { NameTikTok, NameInstagram, NameTrends24, NamePinterest }

\* <<status, progress, trends, details, error>> of an updateSourceProgress call.
UpdateArgs ==
  { <<"running",   0,   0, "Initializing scraper...", None>>,
    <<"running",   50,  1, "Scraped raw trends",      None>>,
    <<"completed", 100, 1, "Completed",               None>>,
    <<"completed", 100, 0, "No trends found",         None>>,
    <<"failed",    0,   0, "Scraping failed",         "Request failed">> }

ErrorMessages == { "Request failed" }

TrendLists == { << >>, <<"t1">> }

T_Initialize(names) ==
  /\ status' = initializeScraping(names)
  /\ snap' = Detached(snap, status, ArrayFields)

T_Update(name, a) ==
  /\ status' = updateSourceProgress(status, name, a[1], a[2], a[3], a[4], a[5])
  /\ UNCHANGED snap

T_Complete(trends) ==
  /\ status' = completeScraping(status, trends)
  /\ snap' = Detached(snap, status, {"trends"})

T_AddError(e) ==
  /\ Len(status.errors) < MaxErrors
  /\ status' = addError(status, e)
  /\ UNCHANGED snap

T_Reset ==
  /\ status' = EmptyStatus
  /\ snap' = Detached(snap, status, ArrayFields)

TrackerInit ==
  /\ status = EmptyStatus
  /\ snap = NoSnap
  /\ OrchIdle

TrackerNext ==
  \/ \E names \in InitLists : T_Initialize(names)
  \/ \E name \in UpdateNames, a \in UpdateArgs : T_Update(name, a)
  \/ \E trends \in TrendLists : T_Complete(trends)
  \/ \E e \in ErrorMessages : T_AddError(e)
  \/ T_Reset

SpecTracker == TrackerInit /\ [][TrackerNext /\ UNCHANGED orchVars]_vars

(***************************************************************************)
(* A caller of getStatus() that keeps the returned object and writes to    *)
(* it, next to the tracker's own methods.  What the caller writes is       *)
(* distinct from anything a tracker method writes.                         *)
(***************************************************************************)
Injected == "written by the caller"

S_GetStatus ==
  /\ snap' = getStatus(status)
  /\ UNCHANGED status

\* snapshot.isRunning = !snapshot.isRunning: a field of the copy itself.
CallerSetIsRunning ==
  /\ snap.taken
  /\ snap' = [ snap EXCEPT !.isRunning = ~@ ]
  /\ UNCHANGED status

\* snapshot.errors.push(...)
CallerPushError ==
  /\ snap.taken
  /\ Len(SnapArray(snap, status, "errors")) < MaxErrors
  /\ IF "errors" \in snap.live
     THEN status' = [ status EXCEPT !.errors = Append(@, Injected) ] /\ UNCHANGED snap
     ELSE snap' = [ snap EXCEPT !.errors = Append(@, Injected) ] /\ UNCHANGED status

\* snapshot.trends.push(...)
CallerPushTrend ==
  /\ snap.taken
  /\ Len(SnapArray(snap, status, "trends")) < MaxTrends
  /\ IF "trends" \in snap.live
     THEN status' = [ status EXCEPT !.trends = Append(@, Injected) ] /\ UNCHANGED snap
     ELSE snap' = [ snap EXCEPT !.trends = Append(@, Injected) ] /\ UNCHANGED status

\* snapshot.sources[i].details = ...: a write to an entry object.
CallerSetEntryDetails(i) ==
  /\ snap.taken
  /\ i \in 1..Len(SnapArray(snap, status, "sources"))
  /\ SnapArray(snap, status, "sources")[i].details # Injected
  /\ IF "sources" \in snap.live
     THEN status' = [ status EXCEPT !.sources[i].details = Injected ] /\ UNCHANGED snap
     ELSE snap' = [ snap EXCEPT !.sources[i].details = Injected ] /\ UNCHANGED status

CallerMutates ==
  \/ CallerSetIsRunning
  \/ CallerPushError
  \/ CallerPushTrend
  \/ CallerSetEntryDetails(1)

\* The updateSourceProgress calls of this specification.
SnapUpdateArgs == { a \in UpdateArgs : a[2] = 100 /\ a[3] = 1 }

SnapshotNext ==
  \/ T_Initialize(Undefined)
  \/ \E a \in SnapUpdateArgs : T_Update(NameTikTok, a)
  \/ \E e \in ErrorMessages : T_AddError(e)
  \/ T_Complete(<<"t1">>)
  \/ S_GetStatus
  \/ CallerMutates

SpecSnapshot == TrackerInit /\ [][SnapshotNext /\ UNCHANGED orchVars]_vars

(***************************************************************************)
(* An initialised tracker that receives updateSourceProgress calls only.   *)
(***************************************************************************)
UpdatesInit ==
  /\ \E names \in InitLists : status = initializeScraping(names)
  /\ snap = NoSnap
  /\ OrchIdle

UpdatesNext == \E name \in UpdateNames, a \in UpdateArgs : T_Update(name, a)

SpecUpdates == UpdatesInit /\ [][UpdatesNext /\ UNCHANGED orchVars]_vars

\* The number of entries whose status is Completed or Failed.
NumDone(s) ==
  Cardinality({ i \in 1..Len(s.sources) : s.sources[i].status \in {"completed", "failed"} })

\* progress = 100 * (number of Completed or Failed entries) / totalSources
PercentMatches(s) ==
  FracEq(s.progress, Frac(100 * NumDone(s), s.totalSources))

\* C4: on an initialised tracker with at least one source, after any
\* sequence of updateSourceProgress calls, completedSources is the number of
\* entries that are Completed or Failed and progress is
\* 100 * completedSources / totalSources.
C4_PercentAfterUpdate ==
  status.totalSources > 0 =>
    /\ status.completedSources = NumDone(status)
    /\ PercentMatches(status)

\* C4 witness: updates have left one source Completed, one Failed and one
\* untouched, so that progress is 200/3.
C4_Witness ==
  /\ status.totalSources = 3
  /\ \E i, j \in 1..3 : /\ status.sources[i].status = "completed"
                        /\ status.sources[j].status = "failed"
  /\ status.progress = Frac(200, 3)

\* C5 as stated: whenever totalSources > 0, progress is
\* 100 * completedSources / totalSources.
C5_PercentNeverIndependent ==
  status.totalSources > 0 =>
    /\ status.completedSources = NumDone(status)
    /\ PercentMatches(status)

\* C5 amended: whenever totalSources > 0, progress is
\* 100 * completedSources / totalSources, unless completeScraping has ended
\* the session (isRunning = false) and forced progress to 100.
C5_PercentUnlessCompleted ==
  status.totalSources > 0 =>
    /\ status.completedSources = NumDone(status)
    /\ \/ PercentMatches(status)
       \/ (~status.isRunning /\ status.progress = Frac(100, 1))

\* C5 witness: completeScraping has forced progress to 100 although a source
\* is still pending.
C5_Witness ==
  /\ status.totalSources > 0
  /\ ~status.isRunning
  /\ status.progress = Frac(100, 1)
  /\ \E i \in 1..Len(status.sources) : status.sources[i].status = "pending"
  /\ status.completedSources > 0

\* C6 as stated: an update never re-opens a terminal entry, and
\* completedSources never decreases.
C6_TerminalStaysTerminal ==
  [][ /\ \A i \in 1..Len(status.sources) :
           IsTerminal(status.sources[i].status) => IsTerminal(status'.sources[i].status)
      /\ status'.completedSources >= status.completedSources ]_vars

\* C7 as stated: nothing the holder of a getStatus() result writes to it
\* changes the tracker's status.
C7_SnapshotIsolated ==
  [][ CallerMutates => status' = status ]_vars

(***************************************************************************)
(* TrendScraper.scrapeAllSources.  JavaScript runs a handler without       *)
(* interruption up to its next await, so one action is the code between    *)
(* two awaits.  The pieces of that code are operators on a pair            *)
(* m = [c |-> the activation's record, st |-> the tracker's status].       *)
(***************************************************************************)
\* this.sources of the build the activation belongs to.
SourcesOf(c) == IF c.kind = "legacy" THEN LegacySources ELSE Sources

\* this.sources.length
NumSources(c) == IF c.kind = "legacy" THEN Len(c.sourcesToScrape) ELSE Len(Sources)

CurrentSource(c) == SourcesOf(c)[c.sourcesToScrape[c.i]]

\* progressManager.updateSourceProgress(source.name, ...)
Progress(m, st, progress, trends, details, error) ==
  LET src   == m.c.sourcesToScrape[m.c.i]
      call  == [ source |-> src, status |-> st, trends |-> trends ]
      log   == m.c.issued
  IN  [ m EXCEPT !.st = updateSourceProgress(m.st, CurrentSource(m.c).name,
                                             st, progress, trends, details, error),
                 !.c.issued = IF log # << >> /\ log[Len(log)].source = src
                              THEN [ log EXCEPT ![Len(log)] = call ]
                              ELSE Append(log, call) ]

\* The locals of the previous iteration are gone.  (runStatus, attempts and
\* pollLog are kept until here, past the return of extractionLogic, as the
\* record of the iteration's job.)
FreshIteration(c) ==
  [ c EXCEPT !.trends = << >>, !.runStatus = None, !.attempts = 0, !.pollLog = << >>,
             !.page = NoPage, !.cascade = NoCascade ]

\* Loop body up to the first await: scrapeSource, then scrapeAxios up to
\* axios.get or scrapePuppeteer up to browserManager.launch.
StartSource(m) ==
  [ Progress([ m EXCEPT !.c = FreshIteration(@) ],
             "running", 0, 0, "Initializing scraper...", None)
      EXCEPT !.c.pc = IF CurrentSource(m.c).scrapeMethod = "puppeteer" THEN "launch" ELSE "get" ]

\* for (let i = 0; i < sourcesToScrape.length; ...), then the report.
LoopHead(m) ==
  IF m.c.i <= Len(m.c.sourcesToScrape)
  THEN StartSource(m)
  ELSE [ m EXCEPT !.c = [ FreshIteration(@) EXCEPT !.pc = "report" ] ]

NextIteration(m) == LoopHead([ m EXCEPT !.c.i = @ + 1 ])

\* if (i < this.sources.length - 1) await delay   (i is 0-based in the code)
EndOfBody(m) ==
  IF m.c.i - 1 < NumSources(m.c) - 1
  THEN [ m EXCEPT !.c.pc = "delay" ]
  ELSE NextIteration(m)

\* Mutant: the catch records the error and goes on without the 'failed' update.
CatchSource_Silent(m, errorMessage) ==
  NextIteration([ m EXCEPT !.c.scrapingStats.errors =
                             Append(@, <<CurrentSource(m.c).name, errorMessage>>) ])

\* catch (sourceError) { errors.push; update failed; continue }
CatchSource(m, errorMessage) ==
  LET m1 == [ m EXCEPT !.c.scrapingStats.errors =
                         Append(@, <<CurrentSource(m.c).name, errorMessage>>) ]
  IN  NextIteration(Progress(m1, "failed", 0, 0, "Scraping failed", errorMessage))

\* The code after `const trends = await this.scrapeSource(source)`.
AfterScrape(m, trends) ==
  LET m1 == Progress(m, "running", 50, Len(trends), "Scraped raw trends", None)
      m2 == [ m1 EXCEPT !.c.scrapingStats.completedSources = @ + 1 ]
  IN  IF Len(trends) > 0
      THEN [ Progress(m2, "running", 70, Len(trends), "Running AI analysis...", None)
               EXCEPT !.c.pc = "analyze", !.c.trends = trends ]
      ELSE EndOfBody(Progress(m2, "completed", 100, 0, "No trends found", None))

\* The records a source's extractionLogic builds from n items.
Extracted(src, n) == [ k \in 1..n |-> [ source |-> src, k |-> k ] ]

\* The elements of seq at the positions in keep, in order.
RECURSIVE Kept(_, _, _)
Kept(seq, keep, k) ==
  IF k > Len(seq) THEN << >>
  ELSE (IF k \in keep THEN <<seq[k]>> ELSE << >>) \o Kept(seq, keep, k + 1)

\* The machine of activation c, and the state after a piece of code ran.
M(c) == [ c |-> calls[c], st |-> status ]

Becomes(c, m) ==
  /\ calls' = [ calls EXCEPT ![c] = m.c ]
  /\ status' = m.st

\* The guard of scrapeAllSources, if (this.isRunning), is AlreadyRunning below;
\* AlreadyRunning_Never is the guard that never fires.
AlreadyRunning_Never == FALSE

AlreadyRunning == isRunning

\* The early return is taken as if it sat inside the try: finally clears the flag.
Rejected_ClearsFlag(c, kind, st0) ==
  /\ calls' = [ calls EXCEPT ![c] = [ @ EXCEPT !.pc = "rejected", !.kind = kind,
                                               !.result = AlreadyRunningResult ] ]
  /\ status' = IF kind = "api" THEN completeScraping(st0, << >>) ELSE st0
  /\ isRunning' = FALSE

\* return { trends: [], report: 'Scraping already in progress' }.  For a call
\* made by the POST /api/scrape handler, the handler then runs
\* completeScraping(result.trends) on the tracker it had initialised.
Rejected(c, kind, st0) ==
  /\ calls' = [ calls EXCEPT ![c] = [ @ EXCEPT !.pc = "rejected", !.kind = kind,
                                               !.result = AlreadyRunningResult ] ]
  /\ status' = IF kind = "api" THEN completeScraping(st0, << >>) ELSE st0
  /\ UNCHANGED isRunning

\* sourcesToScrape: indices into Sources, narrowed by the platform filter.
FilteredSources(platformFilter) ==
  IF platformFilter.defined /\ Len(platformFilter.value) > 0
  THEN SelectSeq([ k \in 1..Len(Sources) |-> k ],
                 LAMBDA k : \E j \in 1..Len(platformFilter.value) :
                              platformFilter.value[j] = sourcePlatformMapping(Sources[k].name))
  ELSE [ k \in 1..Len(Sources) |-> k ]

\* this.isRunning = true; locals; filter; first iteration up to its await.
Entered(c, kind, platformFilter, st0) ==
  /\ isRunning' = TRUE
  /\ Becomes(c, LoopHead([ c |-> [ IdleCall EXCEPT
                                     !.kind = kind,
                                     !.platformFilter = platformFilter,
                                     !.sourcesToScrape = FilteredSources(platformFilter),
                                     !.i = 1,
                                     !.scrapingStats.totalSources = Len(Sources) ],
                           st |-> st0 ]))

scrapeAllSources(c, kind, platformFilter, st0) ==
  IF AlreadyRunning
  THEN Rejected(c, kind, st0)
  ELSE Entered(c, kind, platformFilter, st0)

\* Platform filters a request body carries.
PlatformFilters ==
  { Undefined, Some(<<"TikTok">>), Some(<<"Instagram", "X (Twitter)">>) }

\* The cron callback of schedulePeriodicScraping: scrapeAllSources().
DirectScrape(c) ==
  /\ calls[c].pc = "idle"
  /\ scrapeAllSources(c, "direct", Undefined, status)
  /\ UNCHANGED <<snap, apifyToken>>

\* POST /api/scrape: refuse when the tracker says a run is in progress, else
\* initializeScraping() and scrapeAllSources(platforms).
ApiScrape(c, platforms) ==
  /\ calls[c].pc = "idle"
  /\ IF getStatus(status).isRunning
     THEN /\ calls' = [ calls EXCEPT ![c] = [ @ EXCEPT !.pc = "refused", !.kind = "api" ] ]
          /\ UNCHANGED <<status, isRunning>>
     ELSE scrapeAllSources(c, "api", platforms, initializeScraping(Undefined))
  /\ UNCHANGED <<snap, apifyToken>>

(***************************************************************************)
(* The fallback extraction of the earlier TrendScraper (the build whose    *)
(* scrapeAxios and scrapePuppeteer call applyFallbackExtraction when the   *)
(* source's own extractionLogic returned no record).  A document is kept   *)
(* as what the three synchronous strategies read in it:                    *)
(*   hashtags  the matches of /#[\w\u4e00-\u9fff]+/g in the body text    *)
(*   texts     the texts of the elements that stand near a trending        *)
(*             keyword and are not UI labels, addresses or links           *)
(*   hrefs     the groups captured by the url patterns in the a[href]      *)
(* Strings are sequences of one-character strings.                         *)
(***************************************************************************)
\* A page's strings.
T_Trend    == << "#", "T", "r", "e", "n", "d" >>
T_trend    == << "#", "t", "r", "e", "n", "d" >>
T_Viral    == << "#", "V", "i", "r", "a", "l" >>
T_Short    == << "#", "a" >>
X_HotTopic == << "H", "o", "t", " ", "T", "o", "p", "i", "c" >>
X_Hi       == << "H", "i" >>
U_Trend    == << "T", "r", "e", "n", "d" >>
U_CoolPlus == << "c", "o", "o", "l", "+", "n", "e", "w" >>
U_Escaped  == << "%", "2", "3", "V", "i", "r", "a", "l" >>
U_Broken   == << "t", "o", "p", "%" >>

\* String.prototype.toLowerCase, on the letters the pages use.
LowerChar(ch) ==
  IF ch = "T" THEN "t" ELSE IF ch = "V" THEN "v" ELSE IF ch = "H" THEN "h" ELSE ch

toLowerCase(s) == [ k \in 1..Len(s) |-> LowerChar(s[k]) ]

\* seq.slice(0, n)
Slice(seq, n) == SubSeq(seq, 1, IF Len(seq) < n THEN Len(seq) ELSE n)

\* Array.from(new Set(seq)): the first occurrence of each element, in order.
RECURSIVE FromSet(_)
FromSet(seq) ==
  IF seq = << >> THEN << >>
  ELSE LET init == FromSet(SubSeq(seq, 1, Len(seq) - 1))
           last == seq[Len(seq)]
       IN  IF \E k \in 1..Len(init) : init[k] = last THEN init ELSE Append(init, last)

\* text.startsWith('#') ? text : `#${text.replace(/\s+/g, '')}`
ToHashtag(text) ==
  IF text # << >> /\ text[1] = "#" THEN text
  ELSE << "#" >> \o SelectSeq(text, LAMBDA ch : ch # " ")

\* String.prototype.trim
RECURSIVE Trim(_)
Trim(s) ==
  IF s = << >> THEN s
  ELSE IF s[1] = " " THEN Trim(SubSeq(s, 2, Len(s)))
  ELSE IF s[Len(s)] = " " THEN Trim(SubSeq(s, 1, Len(s) - 1))
  ELSE s

\* decodeURIComponent: %23 is '#', %20 is ' '; a '%' that does not start an
\* escape raises URIError.
RECURSIVE decodeURIComponent(_)
decodeURIComponent(s) ==
  IF s = << >> THEN [ threw |-> FALSE, value |-> << >> ]
  ELSE IF s[1] # "%"
    THEN LET rest == decodeURIComponent(SubSeq(s, 2, Len(s)))
         IN  [ rest EXCEPT !.value = << s[1] >> \o @ ]
  ELSE IF Len(s) >= 3 /\ s[2] = "2" /\ s[3] \in { "3", "0" }
    THEN LET rest == decodeURIComponent(SubSeq(s, 4, Len(s)))
         IN  [ rest EXCEPT !.value = << IF s[3] = "3" THEN "#" ELSE " " >> \o @ ]
  ELSE [ threw |-> TRUE, value |-> << >> ]

\* .replace(/[+%20_-]/g, ' '): each of the characters + % 2 0 _ - becomes a space.
ReplaceSeparators(s) ==
  [ k \in 1..Len(s) |-> IF s[k] \in { "+", "%", "2", "0", "_", "-" } THEN " " ELSE s[k] ]

\* A record a fallback strategy builds; ai_confidence is -1 where the record
\* has none.
FallbackTrend(src, hashtag, method) ==
  [ source |-> src, hashtag |-> hashtag, method |-> method, ai_confidence |-> 0 - 1 ]

\* extractHashtagPatterns
extractHashtagPatterns(page, src) ==
  LET uniqueHashtags ==
        Slice(SelectSeq(FromSet(page.hashtags), LAMBDA tag : Len(tag) > 2 /\ Len(tag) < 50), 5)
  IN  [ k \in 1..Len(uniqueHashtags) |->
          FallbackTrend(src, uniqueHashtags[k], "fallback_hashtag_pattern") ]

\* extractTextPatterns
extractTextPatterns(page, src) ==
  LET potentialTrends ==
        Slice(FromSet(SelectSeq(page.texts, LAMBDA text : Len(text) > 3 /\ Len(text) < 60)), 5)
  IN  [ k \in 1..Len(potentialTrends) |->
          FallbackTrend(src, ToHashtag(potentialTrends[k]), "fallback_text_pattern") ]

\* extractFromUrls: the captured groups in document order; the first one
\* that decodeURIComponent rejects ends the function with URIError.
RECURSIVE extractFromUrls(_, _)
extractFromUrls(hrefs, src) ==
  IF hrefs = << >> THEN [ threw |-> FALSE, trends |-> << >> ]
  ELSE LET before  == extractFromUrls(SubSeq(hrefs, 1, Len(hrefs) - 1), src)
           decoded == decodeURIComponent(hrefs[Len(hrefs)])
           extracted == Trim(ReplaceSeparators(decoded.value))
       IN  IF before.threw \/ decoded.threw THEN [ threw |-> TRUE, trends |-> << >> ]
           ELSE IF Len(extracted) > 2 /\ Len(extracted) < 50 /\ Len(before.trends) < 5
             THEN [ before EXCEPT !.trends =
                      Append(@, FallbackTrend(src, ToHashtag(extracted), "fallback_url_pattern")) ]
           ELSE before

\* Documents a fetch can return.
Pages ==
  { NoPage,
    [ hashtags |-> << T_Trend, T_trend, T_Trend, T_Short >>, texts |-> << >>,
      hrefs |-> << U_Trend >> ],
    [ hashtags |-> << T_Viral >>, texts |-> << >>, hrefs |-> << U_Broken >> ],
    [ hashtags |-> << >>, texts |-> << X_HotTopic, X_Hi, X_HotTopic >>,
      hrefs |-> << U_CoolPlus >> ],
    [ hashtags |-> << T_Trend, T_Viral, T_trend >>, texts |-> << X_HotTopic >>,
      hrefs |-> << U_Broken >> ],
    [ hashtags |-> << >>, texts |-> << >>, hrefs |-> << U_Escaped >> ] }

\* What the GET of a job source's url (the actor's API endpoint) returns.
JobPages ==
  { NoPage, [ hashtags |-> << >>, texts |-> << >>, hrefs |-> << U_Escaped >> ] }

\* trend.confidence > 0.5, confidences in tenths.
ConfidenceThreshold == 5

\* What aiService.analyzeContent resolves with: null (it caught its own
\* failure), a text that is not JSON, JSON that is not an array, or an array
\* of { hashtag, confidence } entries.
AIResponses ==
  { [ kind |-> "null",   entries |-> << >> ],
    [ kind |-> "text",   entries |-> << >> ],
    [ kind |-> "object", entries |-> << >> ],
    [ kind |-> "array",
      entries |-> << [ hashtag |-> T_Viral, confidence |-> 8 ],
                     [ hashtag |-> T_Trend, confidence |-> 5 ],
                     [ hashtag |-> << >>,   confidence |-> 9 ],
                     [ hashtag |-> T_trend, confidence |-> 9 ],
                     [ hashtag |-> T_Short, confidence |-> 7 ],
                     [ hashtag |-> T_Trend, confidence |-> 6 ] >> ] }

\* extractWithAIAnalysis, from the answer of analyzeContent on.
extractWithAIAnalysis(aiResponse, src) ==
  IF aiResponse.kind # "array" THEN << >>
  ELSE LET kept == Slice(SelectSeq(aiResponse.entries,
                                   LAMBDA trend : /\ trend.hashtag # << >>
                                                  /\ trend.confidence > ConfidenceThreshold), 3)
       IN  [ k \in 1..Len(kept) |->
               [ FallbackTrend(src, kept[k].hashtag, "fallback_ai_analysis")
                   EXCEPT !.ai_confidence = kept[k].confidence ] ]

\* Entry of the strategy log of one applyFallbackExtraction call.
Ran(strategy, threw, n) == [ strategy |-> strategy, threw |-> threw, n |-> n ]

\* applyFallbackExtraction up to its only await: strategies 1 to 3.  Nothing
\* in it catches, so a strategy that throws ends the call.
SyncStrategies(page, src) ==
  LET s1 == extractHashtagPatterns(page, src)
      t1 == s1
      l1 == << Ran("hashtag", FALSE, Len(s1)) >>
      s2 == extractTextPatterns(page, src)
      t2 == IF Len(t1) < 3 THEN t1 \o s2 ELSE t1
      l2 == IF Len(t1) < 3 THEN Append(l1, Ran("text", FALSE, Len(s2))) ELSE l1
      s3 == extractFromUrls(page.hrefs, src)
  IN  IF Len(t2) >= 3 THEN [ threw |-> FALSE, trends |-> t2, log |-> l2 ]
      ELSE IF s3.threw THEN [ threw |-> TRUE, trends |-> t2,
                              log |-> Append(l2, Ran("url", TRUE, 0)) ]
      ELSE [ threw |-> FALSE, trends |-> t2 \o s3.trends,
             log |-> Append(l2, Ran("url", FALSE, Len(s3.trends))) ]

\* Mutant: the assisted strategy also runs when two records were found.
NeedsAI_Under3(trends) == Len(trends) < 3

\* if (trends.length < 2): strategy 4, the AI analysis.
NeedsAI(trends) == Len(trends) < 2

\* Mutant: a single extracted record is not enough to skip the fallback.
UsesFallback_Under2(extractedTrends) == Len(extractedTrends) < 2

\* if (extractedTrends.length === 0)
UsesFallback(extractedTrends) == Len(extractedTrends) = 0

\* The job of the iteration was still RUNNING when the poll loop gave up.
JobTimedOut(c) == c.runStatus = "RUNNING" /\ c.attempts >= maxAttempts

\* scrapeAxios / scrapePuppeteer from the return of extractionLogic on:
\* the extracted records, or applyFallbackExtraction on the document when
\* there are none.  An exception of the fallback reaches the catch of
\* scrapeAxios / scrapePuppeteer, which returns [].
LegacyExtraction(m, extractedTrends) ==
  LET src == m.c.sourcesToScrape[m.c.i]
      m1  == [ m EXCEPT !.c.cascade.returned = TRUE,
                        !.c.cascade.extracted = extractedTrends,
                        !.c.timedOut = IF JobTimedOut(m.c) THEN Append(@, src) ELSE @ ]
      r   == SyncStrategies(m.c.page, src)
      m2  == [ m1 EXCEPT !.c.cascade.ran = TRUE, !.c.cascade.log = r.log,
                         !.c.cascade.threw = r.threw ]
  IN  IF ~UsesFallback(extractedTrends) THEN AfterScrape(m1, extractedTrends)
      ELSE IF r.threw THEN AfterScrape(m2, << >>)
      ELSE IF NeedsAI(r.trends)
        THEN [ m2 EXCEPT !.c.pc = "assist", !.c.cascade.before = r.trends,
                         !.c.cascade.aiCalls = @ + 1 ]
      ELSE AfterScrape(m2, Slice(r.trends, 10))

\* What the caller of extractionLogic does with its result, in either build.
Extraction(m, extractedTrends) ==
  IF m.c.kind = "legacy" THEN LegacyExtraction(m, extractedTrends)
  ELSE AfterScrape(m, extractedTrends)

(***************************************************************************)
(* scrapeAxios and the job sources' extractionLogic: fetch source.url,     *)
(* then (job sources) submit the actor run, poll its status, fetch the     *)
(* dataset.  Every failure inside is caught there and yields [].           *)
(***************************************************************************)
\* Mutant: one poll too many.
PollAgain_OffByOne(runStatus, attempts) ==
  runStatus = "RUNNING" /\ attempts <= maxAttempts

\* Mutant: the loop runs on whatever the status is.
PollAgain_IgnoresStatus(runStatus, attempts) ==
  attempts < maxAttempts

\* while (runStatus === 'RUNNING' && attempts < maxAttempts)
PollAgain(runStatus, attempts) ==
  runStatus = "RUNNING" /\ attempts < maxAttempts

\* Mutant: only a FAILED run is given up; the dataset of any other run is fetched.
RunFailed_OnlyFAILED(runStatus) == runStatus = "FAILED"

\* if (runStatus !== 'SUCCEEDED') return []
RunFailed(runStatus) == runStatus # "SUCCEEDED"

\* axios.get(source.url) settles.  Rejected: scrapeAxios returns [].
\* if (!APIFY_TOKEN) { ...; return []; } at the head of a job source's
\* extractionLogic; TokenMissing_Never is the test that never fires.
TokenMissing_Never == FALSE

TokenMissing == ~apifyToken

\* Resolved: after the random delay extractionLogic runs; a document source
\* extracts n records from the page; a job source returns [] without a
\* token and otherwise posts the actor run.
GetDone(c, ok, n) ==
  /\ calls[c].pc = "get"
  /\ LET m == M(c) IN
     IF ~ok THEN n = 0 /\ Becomes(c, AfterScrape(m, << >>))
     ELSE IF ~CurrentSource(m.c).usesJob
       THEN Becomes(c, AfterScrape(m, Extracted(m.c.sourcesToScrape[m.c.i], n)))
     ELSE IF TokenMissing
       THEN n = 0 /\ Becomes(c, AfterScrape(m, << >>))
     ELSE n = 0 /\ Becomes(c, [ m EXCEPT !.c.pc = "submit" ])
  /\ UNCHANGED <<snap, isRunning, apifyToken>>

\* axios.post(.../runs) settles.  Resolved: runStatus = 'RUNNING',
\* attempts = 0, and the loop waits for its first status request.
SubmitDone(c, ok) ==
  /\ calls[c].pc = "submit"
  /\ LET m == M(c) IN
     IF ~ok THEN Becomes(c, Extraction(m, << >>))
     ELSE IF PollAgain("RUNNING", 0)
       THEN Becomes(c, [ m EXCEPT !.c.pc = "poll", !.c.runStatus = "RUNNING",
                                  !.c.attempts = 0, !.c.pollLog = << >> ])
     ELSE Becomes(c, Extraction([ m EXCEPT !.c.runStatus = "RUNNING", !.c.attempts = 0,
                                           !.c.pollLog = << >> ], << >>))
  /\ UNCHANGED <<snap, isRunning, apifyToken>>

\* The status request of one loop iteration settles with resp: a status, or
\* a transport error, which the catch of extractionLogic turns into [].
\* pollLog records what each status request of the current job returned.
PollDone(c, resp) ==
  /\ calls[c].pc = "poll"
  /\ LET m  == M(c)
         m1 == [ m EXCEPT !.c.pollLog = Append(@, resp) ]
     IN
     IF resp = TransportError THEN Becomes(c, Extraction(m1, << >>))
     ELSE LET m2 == [ m1 EXCEPT !.c.runStatus = resp, !.c.attempts = @ + 1 ] IN
          IF PollAgain(m2.c.runStatus, m2.c.attempts) THEN Becomes(c, m2)
          ELSE IF RunFailed(m2.c.runStatus) THEN Becomes(c, Extraction(m2, << >>))
          ELSE Becomes(c, [ m2 EXCEPT !.c.pc = "dataset" ])
  /\ UNCHANGED <<snap, isRunning, apifyToken>>

\* axios.get(.../datasets/<id>/items) settles; the items become n records.
DatasetDone(c, ok, n) ==
  /\ calls[c].pc = "dataset"
  /\ LET m == M(c) IN
     IF ~ok THEN n = 0 /\ Becomes(c, Extraction(m, << >>))
     ELSE Becomes(c, Extraction(m, Extracted(m.c.sourcesToScrape[m.c.i], n)))
  /\ UNCHANGED <<snap, isRunning, apifyToken>>

(***************************************************************************)
(* The rest of the loop body, the report and the finally block.            *)
(***************************************************************************)
\* aiService.analyzeTrends(trends) resolves.
AnalyzeDone(c) ==
  /\ calls[c].pc = "analyze"
  /\ Becomes(c, [ Progress(M(c), "running", 90, Len(calls[c].trends),
                           "Saving to database...", None) EXCEPT !.c.pc = "save" ])
  /\ UNCHANGED <<snap, isRunning, apifyToken>>

\* Mutant: the first Trend.create that throws ends saveEnrichedTrends and
\* reaches the catch of the loop body.
SaveDone_AbortsOnFailure(c, keep) ==
  /\ calls[c].pc = "save"
  /\ keep \subseteq 1..Len(calls[c].trends)
  /\ LET m == [ M(c) EXCEPT !.c.persisted = keep ]
         enrichedTrends == Kept(m.c.trends, keep, 1)
         m1 == [ m EXCEPT !.c.allTrends = @ \o enrichedTrends,
                          !.c.scrapingStats.successfulSources = @ + 1 ]
     IN  IF keep # 1..Len(calls[c].trends)
         THEN Becomes(c, CatchSource(m, "Validation error"))
         ELSE Becomes(c, EndOfBody(Progress(m1, "completed", 100, Len(enrichedTrends),
                                            "Completed", None)))
  /\ UNCHANGED <<snap, isRunning, apifyToken>>

\* saveEnrichedTrends resolves: the records at the positions in keep were
\* persisted (Trend.create of the others threw and was logged).
SaveDone(c, keep) ==
  /\ calls[c].pc = "save"
  /\ keep \subseteq 1..Len(calls[c].trends)
  /\ LET m == [ M(c) EXCEPT !.c.persisted = keep ]
         enrichedTrends == Kept(m.c.trends, keep, 1)
         m1 == [ m EXCEPT !.c.allTrends = @ \o enrichedTrends,
                          !.c.scrapingStats.successfulSources = @ + 1 ]
     IN  Becomes(c, EndOfBody(Progress(m1, "completed", 100, Len(enrichedTrends),
                                       "Completed", None)))
  /\ UNCHANGED <<snap, isRunning, apifyToken>>

\* An exception escapes an awaited call of the loop body.
SourceThrows(c) ==
  /\ calls[c].pc \in {"analyze", "save"}
  /\ Becomes(c, CatchSource(M(c), "Request failed"))
  /\ UNCHANGED <<snap, isRunning, apifyToken>>

\* The inter-source delay elapses.
DelayDone(c) ==
  /\ calls[c].pc = "delay"
  /\ Becomes(c, NextIteration(M(c)))
  /\ UNCHANGED <<snap, isRunning, apifyToken>>

\* Mutant: a summary that could not be generated rejects the whole call.
ReportDone_Rethrows(c, report) ==
  /\ calls[c].pc = "report"
  /\ calls' = [ calls EXCEPT ![c] =
                  IF report = "AI report"
                  THEN [ @ EXCEPT !.pc = "cleanup",
                                  !.result = [ trends |-> calls[c].allTrends, report |-> report ] ]
                  ELSE [ @ EXCEPT !.pc = "threw" ] ]
  /\ UNCHANGED <<status, snap, isRunning, apifyToken>>

\* generateTrendReport resolves (it catches its own failures); the function
\* returns { trends: allTrends, report } and finally awaits cleanup().
ReportDone(c, report) ==
  /\ calls[c].pc = "report"
  /\ calls' = [ calls EXCEPT ![c] =
                  [ @ EXCEPT !.pc = "cleanup",
                             !.result = [ trends |-> calls[c].allTrends, report |-> report ] ] ]
  /\ UNCHANGED <<status, snap, isRunning, apifyToken>>

\* cleanup() resolves; this.isRunning = false; the call returns (its locals
\* are gone, its result is with the caller).  The POST /api/scrape handler
\* then runs completeScraping(result.trends).
CleanupDone(c) ==
  /\ calls[c].pc = "cleanup"
  /\ isRunning' = FALSE
  /\ calls' = [ calls EXCEPT ![c] = [ IdleCall EXCEPT !.pc = "returned",
                                                      !.kind = calls[c].kind,
                                                      !.result = calls[c].result ] ]
  /\ status' = IF calls[c].kind = "api"
               THEN completeScraping(status, calls[c].result.trends)
               ELSE status
  /\ UNCHANGED <<snap, apifyToken>>

\* What generateTrendReport resolves with: the model's text, or one of its
\* two placeholders (empty answer; caught failure).
Reports ==
  { "AI report", "Report generation failed", "Unable to generate trend report at this time" }

Init ==
  /\ status = EmptyStatus
  /\ snap = NoSnap
  /\ isRunning = FALSE
  /\ calls = [ c \in Calls |-> IdleCall ]
  /\ apifyToken \in BOOLEAN

Next ==
  \E c \in Calls :
    \/ DirectScrape(c)
    \/ \E platforms \in PlatformFilters : ApiScrape(c, platforms)
    \/ \E ok \in BOOLEAN, n \in 0..MaxRecords : GetDone(c, ok, n)
    \/ \E ok \in BOOLEAN : SubmitDone(c, ok)
    \/ \E resp \in Statuses \cup {TransportError} : PollDone(c, resp)
    \/ \E ok \in BOOLEAN, n \in 0..MaxRecords : DatasetDone(c, ok, n)
    \/ AnalyzeDone(c)
    \/ \E keep \in SUBSET (1..MaxRecords) : SaveDone(c, keep)
    \/ SourceThrows(c)
    \/ DelayDone(c)
    \/ \E report \in Reports : ReportDone(c, report)
    \/ CleanupDone(c)

Spec == Init /\ [][Next]_vars

(***************************************************************************)
(* Runs, scheduled or started through POST /api/scrape, whose sources     *)
(* extract batches of up to                                                *)
(* MaxBatch records, each record saved or not.  The job of a job source    *)
(* is finished at its first status request and the report is generated;    *)
(* saveEnrichedTrends awaits nothing outside the try of each record, so    *)
(* only analyzeTrends is left to throw.  Requests arrive until a run has   *)
(* returned.                                                               *)
(***************************************************************************)
MaxBatch == 3

BatchNext ==
  \E c \in Calls :
    \/ /\ \A d \in Calls : calls[d].pc # "returned"
       /\ \/ DirectScrape(c)
          \/ \E platforms \in PlatformFilters : ApiScrape(c, platforms)
    \/ \E ok \in BOOLEAN, n \in 0..MaxBatch : GetDone(c, ok, n)
    \/ \E ok \in BOOLEAN : SubmitDone(c, ok)
    \/ \E resp \in TerminalStatuses : PollDone(c, resp)
    \/ \E ok \in BOOLEAN, n \in 0..MaxBatch : DatasetDone(c, ok, n)
    \/ AnalyzeDone(c)
    \/ \E keep \in SUBSET (1..MaxBatch) : SaveDone(c, keep)
    \/ calls[c].pc = "analyze" /\ SourceThrows(c)
    \/ DelayDone(c)
    \/ ReportDone(c, "AI report")
    \/ CleanupDone(c)

SpecBatch == Init /\ [][BatchNext]_vars

(***************************************************************************)
(* The earlier TrendScraper.  Its scrapeAllSources takes no platform       *)
(* filter and runs every source of this.sources; its loop body, report and *)
(* finally block are those above.  It differs in scrapeAxios and           *)
(* scrapePuppeteer, which call applyFallbackExtraction, and in having a    *)
(* browser-driven source, so that cleanup() has a browser to close.        *)
(***************************************************************************)
\* Items a job's dataset can hold.
MaxItems == 3

\* The cron callback: scrapeAllSources().  One run is followed: a call is
\* made while no call has passed the guard yet, or when it will be rejected.
LegacyScrape(c) ==
  /\ calls[c].pc = "idle"
  /\ AlreadyRunning \/ \A d \in Calls : calls[d].pc \in {"idle", "rejected"}
  /\ IF AlreadyRunning
     THEN Rejected(c, "legacy", status)
     ELSE /\ isRunning' = TRUE
          /\ Becomes(c, LoopHead([ c |-> [ calls[c] EXCEPT
                                             !.i = 1,
                                             !.scrapingStats.totalSources =
                                               Len(calls[c].sourcesToScrape) ],
                                   st |-> status ]))
  /\ UNCHANGED <<snap, apifyToken>>

\* axios.get(source.url) settles.  Rejected: scrapeAxios returns [].
\* Resolved with the document page: extractionLogic runs as in GetDone, and
\* its result goes through the fallback.
LegacyGetDone(c, ok, n, page) ==
  /\ calls[c].pc = "get"
  /\ LET m  == M(c)
         m1 == [ m EXCEPT !.c.page = page ]
     IN
     IF ~ok THEN n = 0 /\ page = NoPage /\ Becomes(c, AfterScrape(m, << >>))
     ELSE IF ~CurrentSource(m.c).usesJob
       THEN Becomes(c, LegacyExtraction(m1, Extracted(m.c.sourcesToScrape[m.c.i], n)))
     ELSE IF TokenMissing
       THEN n = 0 /\ page \in JobPages /\ Becomes(c, LegacyExtraction(m1, << >>))
     ELSE n = 0 /\ page \in JobPages /\ Becomes(c, [ m1 EXCEPT !.c.pc = "submit" ])
  /\ UNCHANGED <<snap, isRunning, apifyToken>>

\* finally { await page.close(); } of scrapePuppeteer.
ClosePage(m) == [ m EXCEPT !.c.openPages = @ - 1 ]

\* browserManager.launch() and createStealthPage() settle.  Both are called
\* before the try of scrapePuppeteer: a failure of either is an exception of
\* scrapeSource, caught by the loop body.  createStealthPage fails either in
\* browser.newPage() ("page failed": no page was opened) or in one of the
\* calls it then awaits on the page, setUserAgent to mouse.move ("setup
\* failed": the page is open and nothing holds it).
LaunchOutcomes == { "launched", "launch failed", "page failed", "setup failed" }

LaunchDone(c, outcome) ==
  /\ calls[c].pc = "launch"
  /\ LET m == M(c) IN
     IF outcome = "launch failed"
       THEN Becomes(c, CatchSource(m, "Failed to launch the browser process"))
     ELSE IF outcome = "page failed"
       THEN Becomes(c, CatchSource([ m EXCEPT !.c.browser = TRUE ], "Target closed"))
     ELSE IF outcome = "setup failed"
       THEN Becomes(c, CatchSource([ m EXCEPT !.c.browser = TRUE, !.c.openPages = @ + 1 ],
                                   "Protocol error"))
     ELSE Becomes(c, [ m EXCEPT !.c.browser = TRUE, !.c.openPages = @ + 1,
                                !.c.pc = "navigate" ])
  /\ UNCHANGED <<snap, isRunning, apifyToken>>

\* page.goto ... extractionLogic(page) settle.  A failure is caught by
\* scrapePuppeteer, which returns []; otherwise the n extracted records, or
\* the fallback on page.content(), which runs inside the try and may await
\* analyzeContent with the page still open.  (page.close() in the finally
\* block is taken to succeed.)
NavigateDone(c, ok, n, page) ==
  /\ calls[c].pc = "navigate"
  /\ LET m  == M(c)
         m1 == [ m EXCEPT !.c.page = page ]
         r  == LegacyExtraction(ClosePage(m1), Extracted(m.c.sourcesToScrape[m.c.i], n))
     IN
     IF ~ok THEN n = 0 /\ page = NoPage /\ Becomes(c, AfterScrape(ClosePage(m), << >>))
     ELSE IF r.c.pc = "assist" /\ r.c.i = m.c.i
       THEN Becomes(c, [ r EXCEPT !.c.openPages = @ + 1 ])
     ELSE Becomes(c, r)
  /\ UNCHANGED <<snap, isRunning, apifyToken>>

\* aiService.analyzeContent resolves: the rest of extractWithAIAnalysis and
\* of applyFallbackExtraction, return trends.slice(0, 10).
AssistDone(c, aiResponse) ==
  /\ calls[c].pc = "assist"
  /\ LET m          == M(c)
         aiStrategy == extractWithAIAnalysis(aiResponse, m.c.sourcesToScrape[m.c.i])
         m1         == [ m EXCEPT !.c.cascade.log =
                                    Append(@, Ran("ai", FALSE, Len(aiStrategy))) ]
         m2         == IF CurrentSource(m.c).scrapeMethod = "puppeteer"
                       THEN ClosePage(m1) ELSE m1
     IN  Becomes(c, AfterScrape(m2, Slice(m.c.cascade.before \o aiStrategy, 10)))
  /\ UNCHANGED <<snap, isRunning, apifyToken>>

\* cleanup() rejects: browser.close() of the open browser failed.  The
\* finally block ends there, before this.isRunning = false, and the call
\* rejects.
CleanupThrows(c) ==
  /\ calls[c].pc = "cleanup"
  /\ calls[c].browser
  /\ calls' = [ calls EXCEPT ![c] = [ IdleCall EXCEPT !.pc = "threw",
                                                      !.kind = calls[c].kind,
                                                      !.browser = TRUE ] ]
  /\ UNCHANGED <<status, snap, isRunning, apifyToken>>

\* saveEnrichedTrends persists every record.
LegacyKeeps(c) == { 1..Len(calls[c].trends) }

LegacyInit ==
  /\ status = EmptyStatus
  /\ snap = NoSnap
  /\ isRunning = FALSE
  /\ apifyToken \in BOOLEAN
  /\ \E config \in LegacyConfigs :
       calls = [ c \in Calls |-> [ IdleCall EXCEPT !.kind = "legacy",
                                                  !.sourcesToScrape = config ] ]

LegacyNext ==
  \E c \in Calls :
    \/ LegacyScrape(c)
    \/ \E ok \in BOOLEAN, n \in 0..MaxRecords, page \in Pages : LegacyGetDone(c, ok, n, page)
    \/ \E ok \in BOOLEAN : SubmitDone(c, ok)
    \/ \E resp \in Statuses \cup {TransportError} : PollDone(c, resp)
    \/ \E ok \in BOOLEAN, n \in 0..MaxItems : DatasetDone(c, ok, n)
    \/ \E outcome \in LaunchOutcomes : LaunchDone(c, outcome)
    \/ \E ok \in BOOLEAN, n \in 0..MaxRecords, page \in Pages : NavigateDone(c, ok, n, page)
    \/ \E aiResponse \in AIResponses : AssistDone(c, aiResponse)
    \/ AnalyzeDone(c)
    \/ \E keep \in LegacyKeeps(c) : SaveDone(c, keep)
    \/ SourceThrows(c)
    \/ DelayDone(c)
    \/ \E report \in Reports : ReportDone(c, report)
    \/ CleanupDone(c)
    \/ CleanupThrows(c)

SpecLegacy == LegacyInit /\ [][LegacyNext]_vars

(***************************************************************************)
(* Claims about the orchestrator and the job poll loop.                    *)
(***************************************************************************)
\* Positions of an activation that is past the isRunning guard.
ActivePcs ==
  { "get", "submit", "poll", "dataset", "analyze", "save", "delay", "report", "cleanup",
    "launch", "navigate", "assist" }

Last(seq) == seq[Len(seq)]

\* C1: a scrapeAllSources call made while isRunning is true returns at once
\* with no records and the 'already in progress' report, and leaves
\* isRunning, every other activation (its aggregate, error list and
\* counters) and, the call itself touching no tracker, the tracker as they
\* were.  (A call made by the POST /api/scrape handler is preceded and
\* followed by the handler's own initializeScraping and completeScraping.)
C1_RejectedCallChangesNothing ==
  [][ \A c \in Calls :
        (calls[c].pc = "idle" /\ isRunning /\ calls'[c].pc \notin {"idle", "refused"}) =>
          /\ calls'[c].pc = "rejected"
          /\ calls'[c].result = AlreadyRunningResult
          /\ isRunning' = isRunning
          /\ \A d \in Calls \ {c} : calls'[d] = calls[d]
          /\ calls'[c].kind = "direct" => status' = status ]_vars

\* C1 witness: a direct call was rejected while another activation, which
\* holds extracted records, is saving them.
C1_Witness ==
  \E c, d \in Calls :
    /\ calls[c].pc = "rejected" /\ calls[c].kind = "direct"
    /\ calls[d].pc = "save" /\ Len(calls[d].trends) > 0
    /\ isRunning

\* C2: at most one activation is past the guard at any time, it runs with
\* isRunning set, and a rejected activation holds the empty result and never
\* had sources or records of its own.
C2_SingleRun ==
  /\ Cardinality({ c \in Calls : calls[c].pc \in ActivePcs }) <= 1
  /\ (\E c \in Calls : calls[c].pc \in ActivePcs) => isRunning
  /\ \A c \in Calls :
       calls[c].pc = "rejected" =>
         /\ calls[c].result = AlreadyRunningResult
         /\ calls[c].sourcesToScrape = << >>
         /\ calls[c].allTrends = << >>

\* C2 witness: one activation is polling a job while another was rejected.
C2_Witness ==
  \E c, d \in Calls :
    /\ calls[c].pc = "rejected"
    /\ calls[d].pc = "poll" /\ calls[d].attempts > 0

\* Rank of a status along pending -> running -> {completed, failed}.
StatusRank(a) == IF a = "pending" THEN 0 ELSE IF a = "running" THEN 1 ELSE 2

\* What the per-source state machine allows between two states an observer
\* can see (a handler runs without interruption up to its next await, so
\* one step may hold several updates): the status stays, or moves forward
\* along pending -> running -> {completed, failed}.
LegalTransition(a, b) ==
  \/ a = b
  \/ StatusRank(a) < StatusRank(b)

\* C3 as stated: while a run proceeds (no step in which a new call starts,
\* which may re-initialise the tracker), every entry changes status only
\* along pending -> running -> {completed, failed}; in particular none goes
\* from completed or failed back to running.
C3_StatusTransitions ==
  [][ (\A c \in Calls : calls[c].pc = "idle" => calls'[c].pc = "idle") =>
        \A i \in 1..Len(status.sources) :
          LegalTransition(status.sources[i].status, status'.sources[i].status) ]_vars

\* C8: every status request but the last of a job returned RUNNING (nothing
\* is polled after a terminal status), the loop is never left waiting after
\* a terminal status, and attempts counts the requests made: a job whose
\* first terminal status is the k-th answer is polled exactly k times.
C8_PollStopsAtTerminal ==
  \A c \in Calls :
    LET r == calls[c] IN
    /\ \A j \in 1..(Len(r.pollLog) - 1) : r.pollLog[j] = "RUNNING"
    /\ (r.pollLog # << >> /\ Last(r.pollLog) \in TerminalStatuses) =>
         /\ r.pc # "poll"
         /\ r.attempts = Len(r.pollLog)
    /\ (r.pollLog # << >> /\ Last(r.pollLog) = "SUCCEEDED") => r.pc \in {"dataset", "analyze", "save", "delay"}

\* C8 witness: RUNNING, RUNNING, SUCCEEDED: three requests, then the dataset.
C8_Witness ==
  \E c \in Calls :
    /\ calls[c].pollLog = <<"RUNNING", "RUNNING", "SUCCEEDED">>
    /\ calls[c].attempts = 3
    /\ calls[c].pc = "dataset"

\* The job was still RUNNING at each of maxAttempts status requests.
TimedOut(r) ==
  /\ Len(r.pollLog) = maxAttempts
  /\ \A j \in 1..Len(r.pollLog) : r.pollLog[j] = "RUNNING"

\* C9: no job is polled more than maxAttempts times; a job still RUNNING
\* after maxAttempts requests ends the loop, its source yields no records,
\* no error is recorded for it and the run goes on to the next source.
C9_TimeoutIsSoft ==
  \A c \in Calls :
    LET r == calls[c] IN
    /\ Len(r.pollLog) <= maxAttempts
    /\ r.pc = "poll" => Len(r.pollLog) < maxAttempts
    /\ TimedOut(r) =>
         /\ r.pc = "delay"
         /\ r.trends = << >>
         /\ \A k \in 1..Len(r.scrapingStats.errors) :
              r.scrapingStats.errors[k][1] # CurrentSource(r).name
         /\ \A k \in 1..Len(r.allTrends) :
              r.allTrends[k].source # r.sourcesToScrape[r.i]
         /\ isRunning

\* C9 witness: the second source's job timed out after the first source
\* contributed a record.
C9_Witness ==
  \E c \in Calls :
    /\ TimedOut(calls[c])
    /\ calls[c].i = 2
    /\ Len(calls[c].allTrends) > 0
    /\ calls[c].pc = "delay"

\* C10 as stated: after a status request that failed in transport, with
\* fewer than maxAttempts requests made, the loop is still polling.
C10_PollErrorKeepsPolling ==
  \A c \in Calls :
    LET r == calls[c] IN
    (r.pollLog # << >> /\ Last(r.pollLog) = TransportError /\ Len(r.pollLog) < maxAttempts)
      => r.pc = "poll"

\* C11: a dataset request is in flight only for a job whose last observed
\* status is SUCCEEDED; a job source whose job was not submitted, or whose
\* last observed status is anything else (FAILED, TIMED_OUT, ABORTED, still
\* RUNNING at maxAttempts, a failed status request), never reaches the
\* dataset request and contributes no record.
C11_DatasetOnlyAfterSucceeded ==
  \A c \in Calls :
    LET r == calls[c] IN
    /\ r.pc = "dataset" =>
         /\ r.runStatus = "SUCCEEDED"
         /\ r.pollLog # << >> /\ Last(r.pollLog) = "SUCCEEDED"
    /\ (r.pc \in ActivePcs \ {"report", "cleanup"} /\ CurrentSource(r).usesJob
          /\ (r.pollLog = << >> \/ Last(r.pollLog) # "SUCCEEDED")) =>
         /\ r.pc \in {"get", "submit", "poll", "delay"}
         /\ r.trends = << >>
         /\ \A k \in 1..Len(r.allTrends) : r.allTrends[k].source # r.sourcesToScrape[r.i]

\* C11 witness: a job ended ABORTED after a RUNNING answer; its source is
\* over (the run waits before the next source) with no record.
C11_Witness ==
  \E c \in Calls :
    /\ calls[c].pollLog = <<"RUNNING", "ABORTED">>
    /\ calls[c].pc = "delay"
    /\ calls[c].trends = << >>
    /\ calls[c].i = 2

\* C13 as stated, for a failed job submission: when the submission of a
\* source's job fails, an entry naming that source is appended to the run's
\* errors.
C13_SubmissionErrorRecorded ==
  [][ \A c \in Calls :
        (calls[c].pc = "submit" /\ calls'[c].pc = "delay") =>
          /\ Len(calls'[c].scrapingStats.errors) = Len(calls[c].scrapingStats.errors) + 1
          /\ Last(calls'[c].scrapingStats.errors)[1] = CurrentSource(calls[c]).name ]_vars

\* C15: a call that is past the guard goes on, whatever its sources did, to
\* the summary and the finally block and returns: it never ends by throwing,
\* what it returns is its aggregate (possibly empty) together with a
\* summary, and a summary that could not be generated is a placeholder text.
C15_NeverThrows ==
  [][ \A c \in Calls :
        calls[c].pc \in ActivePcs =>
          /\ calls'[c].pc \in ActivePcs \cup {"returned"}
          /\ calls'[c].pc \in {"cleanup", "returned"} =>
               /\ calls'[c].result.report \in Reports
               /\ calls'[c].pc = "cleanup" =>
                    calls'[c].result.trends = calls'[c].allTrends ]_vars

\* C15 witness: no source succeeded, one of them failed, the summary could
\* not be generated: the call is about to return no records and the
\* placeholder.
C15_Witness ==
  \E c \in Calls :
    /\ calls[c].pc = "cleanup"
    /\ calls[c].scrapingStats.successfulSources = 0
    /\ Len(calls[c].scrapingStats.errors) > 0
    /\ calls[c].result = [ trends |-> << >>,
                           report |-> "Unable to generate trend report at this time" ]

(***************************************************************************)
(* Claims about the earlier TrendScraper and its extraction cascade.       *)
(***************************************************************************)
\* A record built by a fallback strategy (not by a source's extractionLogic).
IsFallbackRecord(rec) == "method" \in DOMAIN rec

\* The records of trends that come from source src.
FromSource(trends, src) == SelectSeq(trends, LAMBDA t : t.source = src)

\* Records produced by the strategies that ran before the AI analysis.
RECURSIVE PreAI(_)
PreAI(log) ==
  IF log = << >> THEN 0
  ELSE (IF Last(log).strategy = "ai" THEN 0 ELSE Last(log).n)
       + PreAI(SubSeq(log, 1, Len(log) - 1))

\* The scenario of C12, at the end of the run: an instance configured with
\* two job sources and a document source; the first job's dataset gave 3
\* records, the second job timed out and its source gave nothing, the
\* document source's own extraction gave nothing and the fallback 2; every
\* record was saved.
InScenario(r) ==
  /\ r.kind = "legacy" /\ r.pc = "cleanup"
  /\ r.sourcesToScrape = << 1, 2, 4 >>
  /\ r.timedOut = << 2 >>
  /\ LET a == FromSource(r.allTrends, 1)
         b == FromSource(r.allTrends, 2)
         d == FromSource(r.allTrends, 4)
     IN  /\ Len(a) = 3 /\ \A k \in 1..Len(a) : ~IsFallbackRecord(a[k])
         /\ b = << >>
         /\ Len(d) = 2 /\ \A k \in 1..Len(d) : IsFallbackRecord(d[k])

\* C12 as stated: the run of the scenario returns 5 records, its errors hold
\* exactly one entry and that entry names the source whose job timed out,
\* and the run ends with isRunning = false.
C12_ScenarioOutcome ==
  [][ \A c \in Calls :
        (InScenario(calls[c]) /\ calls'[c].pc # "cleanup") =>
          /\ Len(calls[c].result.trends) = 5
          /\ Len(calls[c].scrapingStats.errors) = 1
          /\ calls[c].scrapingStats.errors[1][1] = LegacySources[2].name
          /\ calls'[c].pc = "returned"
          /\ ~isRunning' ]_vars

\* C14 as stated, in its consequence for later calls: a call is rejected as
\* already running only while a run is in progress.
C14_RejectedOnlyWhileRunning ==
  [][ \A c \in Calls :
        (calls[c].pc = "idle" /\ calls'[c].pc = "rejected") =>
          \E d \in Calls : calls[d].pc \in ActivePcs ]_vars

\* C16: when a source's extractionLogic returned at least one record, the
\* fallback is not called (no strategy runs, analyzeContent is not called)
\* and what the source yields is exactly the extracted records.
C16_StructuredSkipsCascade ==
  \A c \in Calls :
    LET r == calls[c] IN
    (r.cascade.returned /\ Len(r.cascade.extracted) >= 1) =>
      /\ ~r.cascade.ran
      /\ r.cascade.log = << >>
      /\ r.cascade.aiCalls = 0
      /\ r.pc # "assist"
      /\ r.pc \in {"analyze", "save"} => r.trends = r.cascade.extracted

\* C16 witness: one record was extracted from a document in which the
\* fallback would have found hashtags; it is the source's only record.
C16_Witness ==
  \E c \in Calls :
    /\ calls[c].cascade.returned
    /\ Len(calls[c].cascade.extracted) = 1
    /\ calls[c].page.hashtags # << >>
    /\ calls[c].pc = "analyze"
    /\ calls[c].trends = calls[c].cascade.extracted

C18_NoDuplicateTags ==
  \A c \in Calls :
    LET r == calls[c] IN
    r.cascade.ran =>
      \A i, j \in 1..Len(r.trends) :
        i < j => toLowerCase(r.trends[i].hashtag) # toLowerCase(r.trends[j].hashtag)

\* C19 as stated: when a strategy threw, the records of the strategies
\* before it are in the result, and the AI analysis is still called if
\* fewer than 2 records were found.
C19_ThrowingStrategyIsSkipped ==
  \A c \in Calls :
    LET r == calls[c] IN
    (r.cascade.ran /\ r.cascade.threw) =>
      /\ Len(r.trends) >= PreAI(r.cascade.log)
      /\ PreAI(r.cascade.log) < 2 => r.cascade.aiCalls = 1

\* C20 as stated: the fallback is never called for a job source.
C20_NoCascadeForJobSources ==
  \A c \in Calls :
    LET r == calls[c] IN
    (r.pc \in ActivePcs \ {"report", "cleanup"} /\ CurrentSource(r).usesJob) =>
      ~r.cascade.ran

(***************************************************************************)
(* The platform filter, the token test, the routing of updates.            *)
(***************************************************************************)
\* The platform under which a request selects the configured source k.
ClaimedPlatform(k) ==
  IF Sources[k].name = NameTikTok THEN "TikTok"
  ELSE IF Sources[k].name = NameInstagram THEN "Instagram"
  ELSE IF Sources[k].name = NameTrends24 THEN "X (Twitter)"
  ELSE None

\* The configured sources whose platform the filter lists, in configured
\* order; all of them when the filter is absent or empty.
SelectedByFilter(platformFilter) ==
  IF platformFilter.defined /\ Len(platformFilter.value) > 0
  THEN SelectSeq([ k \in 1..Len(Sources) |-> k ],
                 LAMBDA k : \E j \in 1..Len(platformFilter.value) :
                              platformFilter.value[j] = ClaimedPlatform(k))
  ELSE [ k \in 1..Len(Sources) |-> k ]

\* C21: a run processes exactly the configured sources whose platform its
\* filter lists (TikTok, Instagram, Trends24 for 'X (Twitter)'), in
\* configured order, and every source when the filter is absent or empty.
C21_FilterSelectsListedPlatforms ==
  \A c \in Calls :
    (calls[c].kind # "legacy" /\ calls[c].pc \in ActivePcs)
      => calls[c].sourcesToScrape = SelectedByFilter(calls[c].platformFilter)

\* A job source's extractionLogic has returned in the iteration of call c.
JobSourceDone(c) ==
  /\ calls[c].kind # "legacy"
  /\ calls[c].issued # << >>
  /\ Sources[calls[c].issued[1].source].usesJob
  /\ IsTerminal(calls[c].issued[1].status)

\* C22: without an API token a job source's extractionLogic returns an empty
\* list: no job is submitted, polled or read, nothing is thrown, and the
\* source completes with no record.
C22_NoTokenNoJob ==
  ~apifyToken =>
    \A c \in Calls :
      /\ calls[c].pc \notin {"submit", "poll", "dataset"}
      /\ calls[c].runStatus = None /\ calls[c].attempts = 0 /\ calls[c].pollLog = << >>
      /\ calls[c].kind # "legacy" =>
           /\ \A k \in 1..Len(calls[c].issued) :
                Sources[calls[c].issued[k].source].usesJob
                  => /\ calls[c].issued[k].status # "failed"
                     /\ calls[c].issued[k].trends = 0
           /\ \A k \in 1..Len(calls[c].allTrends) :
                ~Sources[calls[c].allTrends[k].source].usesJob

\* C22 witness: no token is configured and the first source of a run, a job
\* source, has completed.
C22_Witness ==
  /\ ~apifyToken
  /\ \E c \in Calls : JobSourceDone(c) /\ calls[c].issued[1].status = "completed"

\* The positions of a source's iteration at which a request is in flight.
NetworkPcs == { "get", "submit", "poll", "dataset", "analyze", "save" }

\* Activation c, a run started by POST /api/scrape over every configured
\* source, takes a step inside the iteration of one source.
StepWithinSource(c) ==
  /\ calls[c].kind = "api" /\ ~calls[c].platformFilter.defined
  /\ calls[c].pc \in NetworkPcs
  /\ calls'[c] # calls[c]
  /\ calls'[c].pc \in NetworkPcs \cup {"delay"}
  /\ calls'[c].i = calls[c].i

\* C23: in a run over the configured sources with the tracker initialised
\* with its default names, the updates issued for a source change the entry
\* of that source (the one at the same position) and no other entry.
C23_UpdatesReachOwnEntry ==
  [][ \A c \in Calls :
        StepWithinSource(c) =>
          LET own == calls[c].sourcesToScrape[calls[c].i] IN
          /\ status'.sources[own].status = Last(calls'[c].issued).status
          /\ \A j \in 1..Len(status.sources) :
               j # own => status'.sources[j] = status.sources[j] ]_vars

\* C24: sources are processed one after another: the sources started are
\* the first ones of the run in order, every one but the last started has
\* had its terminal update, a request in flight belongs to the last one
\* started, which is Running, and no other activation has a request in flight.
C24_OneSourceAtATime ==
  /\ Cardinality({ c \in Calls : calls[c].pc \in NetworkPcs }) <= 1
  /\ \A c \in Calls :
       (calls[c].kind # "legacy" /\ calls[c].pc \in ActivePcs) =>
         LET log == calls[c].issued IN
         /\ \A k \in 1..Len(log) :
              /\ log[k].source = calls[c].sourcesToScrape[k]
              /\ k < Len(log) => IsTerminal(log[k].status)
         /\ calls[c].pc \in NetworkPcs
              => Len(log) = calls[c].i /\ log[calls[c].i].status = "running"
         /\ calls[c].pc \in {"delay", "report", "cleanup"}
              => \A k \in 1..Len(log) : IsTerminal(log[k].status)

\* C24 witness: a request of the third source is in flight after the first
\* source failed and the second completed.
C24_Witness ==
  \E c \in Calls :
    /\ calls[c].kind # "legacy" /\ calls[c].pc \in NetworkPcs /\ calls[c].i = 3
    /\ calls[c].issued[1].status = "failed"
    /\ calls[c].issued[2].status = "completed"

\* C25: when a run started through POST /api/scrape returns and the handler
\* has called completeScraping, every entry of the tracker is Completed or
\* Failed.
C25_NoEntryLeftOpen ==
  [][ \A c \in Calls :
        (calls[c].kind = "api" /\ calls[c].pc = "cleanup" /\ calls'[c].pc = "returned")
          => /\ ~status'.isRunning
             /\ \A j \in 1..Len(status'.sources) :
                  IsTerminal(status'.sources[j].status) ]_vars

\* C26: a page opened for an interactive source is closed before the next
\* source starts, on every path: a page is open only while the source that
\* opened it is navigating or extracting.
C26_PageClosedBeforeNextSource ==
  \A c \in Calls :
    calls[c].openPages > 0
      => /\ calls[c].openPages = 1
         /\ calls[c].pc \in {"navigate", "assist"}
         /\ CurrentSource(calls[c]).scrapeMethod = "puppeteer"

\* C27: a delay follows each processed source that another source follows
\* in the run, whether it completed or failed, and no delay follows the last
\* source processed: a run enters the delay only with a source left, and
\* the next source starts only out of the delay.
C27_DelayBetweenSourcesOnly ==
  [][ \A c \in Calls :
        (calls[c].kind # "legacy" /\ calls[c].pc \in NetworkPcs /\ calls'[c] # calls[c])
          => /\ calls'[c].pc = "delay"
                  => calls[c].i < Len(calls[c].sourcesToScrape)
             /\ calls'[c].pc \in NetworkPcs
                  => calls'[c].i = calls[c].i ]_vars

\* C28: a record that cannot be persisted does not abort its source: the
\* step that ends saveEnrichedTrends pushes no error, appends to the
\* aggregate exactly the persisted records of the batch in extraction
\* order, and completes the source with their number.
C28_FailedSaveKeepsTheRest ==
  [][ \A c \in Calls :
        (calls[c].pc = "save" /\ calls'[c] # calls[c]) =>
          LET batch == calls[c].trends
              keep  == calls'[c].persisted
              n     == Len(calls[c].issued)
          IN  /\ keep \subseteq 1..Len(batch)
              /\ calls'[c].allTrends = calls[c].allTrends \o Kept(batch, keep, 1)
              /\ calls'[c].scrapingStats.errors = calls[c].scrapingStats.errors
              /\ calls'[c].issued[n] =
                   [ source |-> calls[c].sourcesToScrape[calls[c].i],
                     status |-> "completed", trends |-> Cardinality(keep) ] ]_vars

\* C28 witness: of a batch of three records the second could not be
\* persisted; the source completed with two records, the first and the
\* third, added after the record of an earlier source.
C28_Witness ==
  \E c \in Calls :
    /\ calls[c].pc \in {"delay", "report"}
    /\ calls[c].persisted = {1, 3}
    /\ Len(calls[c].allTrends) = 3
    /\ calls[c].allTrends[2].source = calls[c].allTrends[3].source
    /\ calls[c].allTrends[1].source # calls[c].allTrends[2].source
    /\ calls[c].allTrends[2].k = 1 /\ calls[c].allTrends[3].k = 3
    /\ Last(calls[c].issued) = [ source |-> calls[c].allTrends[3].source,
                                 status |-> "completed", trends |-> 2 ]

(***************************************************************************)
(* AIEnrichmentService.analyzeTrends.  A record is kept as its hashtag and *)
(* platform (sequences of characters, empty when the field is missing or   *)
(* ''); a Map as a function from its keys.  What callAI gives back is      *)
(*   "throws"    building the prompt or the call itself threw              *)
(*   "null"      callAI resolved with null (it catches its own failures)   *)
(*   "no json"   a text in which /\{[\s\S]*\}/ matches nothing            *)
(*   "bad json"  a text whose match JSON.parse rejects                     *)
(*   "object"    a text whose match parses into the object `parsed`        *)
(***************************************************************************)
MaxAnalyzed == 2

\* The lists handed to analyzeTrends, of up to MaxAnalyzed records; the
\* third record has neither hashtag nor platform.
TrendInputs ==
  LET records == { [ hashtag |-> T_Trend, platform |-> W_TikTok ],
                   [ hashtag |-> T_Viral, platform |-> W_TikTok ],
                   [ hashtag |-> << >>,   platform |-> << >> ] }
  IN  UNION { [ 1..n -> records ] : n \in 0..MaxAnalyzed }

\* s || d on strings.
OrElse(s, d) == IF s = << >> THEN d ELSE s

\* `${trend.hashtag || 'unknown'}_${trend.platform || 'unknown'}`
TrendKey(trend) ==
  LET unknown == <<"u","n","k","n","o","w","n">>
  IN  OrElse(trend.hashtag, unknown) \o <<"_">> \o OrElse(trend.platform, unknown)

\* index.toString() of a 0-based index.
IndexString(index) == << <<"0","1","2","3","4","5","6","7","8","9">>[index + 1] >>

getDefaultAnalysis(trendId) ==
  [ trendId |-> trendId, insights |-> "Analysis pending", sentiment |-> "neutral",
    predictedGrowth |-> "stable", businessOpportunities |-> << >>,
    relatedTrends |-> << >>, confidence |-> Frac(3, 10) ]

\* Values of the parsed object: an analysis with every field, one with
\* insights only, and null.
EntryFull ==
  [ truthy |-> TRUE, insights |-> Some("Dance remix format"), sentiment |-> Some("positive"),
    predictedGrowth |-> Some("increasing"), businessOpportunities |-> Some(<<"Creator collab">>),
    relatedTrends |-> Some(<<"#reels">>), confidence |-> Some(Frac(9, 10)) ]

EntryPartial ==
  [ truthy |-> TRUE, insights |-> Some("Niche"), sentiment |-> Undefined,
    predictedGrowth |-> Undefined, businessOpportunities |-> Undefined,
    relatedTrends |-> Undefined, confidence |-> Undefined ]

\* null in the parsed object; also what reading a missing property gives
\* (undefined), falsy like it.
EntryNull == [ EntryPartial EXCEPT !.truthy = FALSE, !.insights = Undefined ]

\* What callAI settles with.  The properties an answer may carry are a
\* compound key, a bare hashtag and two positions.
AIOutcomes ==
  LET properties ==
        [ p \in { TrendKey([ hashtag |-> T_Trend, platform |-> W_TikTok ]), T_Viral,
                  IndexString(0), IndexString(1) } |->
            IF p = T_Viral THEN EntryPartial
            ELSE IF p = IndexString(0) THEN EntryNull
            ELSE EntryFull ]
  IN  { [ kind |-> k, parsed |-> << >> ] : k \in { "throws", "null", "no json", "bad json" } }
        \cup { [ kind |-> "object", parsed |-> [ p \in D |-> properties[p] ] ] :
                 D \in SUBSET DOMAIN properties }

EmptyMap == [ k \in {} |-> getDefaultAnalysis(k) ]

\* map.set(k, v)
MapSet(map, k, v) == [ x \in DOMAIN map \cup {k} |-> IF x = k THEN v ELSE map[x] ]

\* parsed[key] || parsed[trend.hashtag || ''] || parsed[index.toString()]
TrendAnalysis(parsed, trend, index) ==
  LET Lookup(p) == IF p \in DOMAIN parsed THEN parsed[p] ELSE EntryNull
      byKey == Lookup(TrendKey(trend))
      byTag == Lookup(trend.hashtag)
  IN  IF byKey.truthy THEN byKey
      ELSE IF byTag.truthy THEN byTag
      ELSE Lookup(IndexString(index))

\* o.field || d
OrDefault(field, d) == IF field.defined THEN field.value ELSE d

\* The body of trends.forEach in parseAIResponse, from record k on.
RECURSIVE ParsedFrom(_, _, _, _)
ParsedFrom(map, parsed, trends, k) ==
  IF k > Len(trends) THEN map
  ELSE LET key           == TrendKey(trends[k])
           trendAnalysis == TrendAnalysis(parsed, trends[k], k - 1)
           analysis      ==
             IF trendAnalysis.truthy
             THEN [ trendId |-> key,
                    insights |-> OrDefault(trendAnalysis.insights, "No specific insights available"),
                    sentiment |-> OrDefault(trendAnalysis.sentiment, "neutral"),
                    predictedGrowth |-> OrDefault(trendAnalysis.predictedGrowth, "stable"),
                    businessOpportunities |-> OrDefault(trendAnalysis.businessOpportunities, << >>),
                    relatedTrends |-> OrDefault(trendAnalysis.relatedTrends, << >>),
                    confidence |-> OrDefault(trendAnalysis.confidence, Frac(1, 2)) ]
             ELSE getDefaultAnalysis(key)
       IN  ParsedFrom(MapSet(map, key, analysis), parsed, trends, k + 1)

\* trends.forEach(trend => analyses.set(key, getDefaultAnalysis(key)))
RECURSIVE DefaultsFrom(_, _, _)
DefaultsFrom(map, trends, k) ==
  IF k > Len(trends) THEN map
  ELSE DefaultsFrom(MapSet(map, TrendKey(trends[k]), getDefaultAnalysis(TrendKey(trends[k]))),
                    trends, k + 1)

\* Its try throws on a text without a JSON object or with one that does not
\* parse; its catch fills a fresh pass of defaults into the same map.
parseAIResponse(response, trends) ==
  IF response.kind = "object"
  THEN ParsedFrom(EmptyMap, response.parsed, trends, 1)
  ELSE DefaultsFrom(EmptyMap, trends, 1)

\* The try block of analyzeTrends: the map built so far, and whether the
\* block was left by an exception.
AnalyzeTry(trends, outcome) ==
  IF outcome.kind \in { "throws", "null" }
  THEN [ threw |-> TRUE, analyses |-> EmptyMap ]
  ELSE [ threw |-> FALSE, analyses |-> parseAIResponse(outcome, trends) ]

\* Mutant: analyzeTrends without its catch block.
analyzeTrends_NoCatch(trends, outcome) == AnalyzeTry(trends, outcome)

analyzeTrends(trends, outcome) ==
  LET try == AnalyzeTry(trends, outcome) IN
  IF try.threw
  THEN [ threw |-> FALSE, analyses |-> DefaultsFrom(try.analyses, trends, 1) ]
  ELSE try

\* In this specification calls[c] is a call of analyzeTrends: its argument,
\* what callAI settles with, and what the call gave back.
AnalyzeInit ==
  /\ status = EmptyStatus
  /\ snap = NoSnap
  /\ isRunning = FALSE
  /\ apifyToken = TRUE
  /\ calls = [ c \in Calls |->
                 [ pc |-> "idle", trends |-> << >>,
                   outcome |-> [ kind |-> "null", parsed |-> << >> ],
                   result |-> [ threw |-> FALSE, analyses |-> EmptyMap ] ] ]

\* analyzeTrends(trends) is called and awaits callAI.
AnalyzeCalled(c, trends, outcome) ==
  /\ \A d \in Calls : calls[d].pc = "idle"
  /\ calls' = [ calls EXCEPT ![c] = [ @ EXCEPT !.pc = "callAI", !.trends = trends,
                                               !.outcome = outcome ] ]
  /\ UNCHANGED <<status, snap, isRunning, apifyToken>>

\* callAI settles and analyzeTrends runs to its end.
AnalyzeSettled(c) ==
  /\ calls[c].pc = "callAI"
  /\ calls' = [ calls EXCEPT ![c] =
                  [ @ EXCEPT !.pc = "analyzed",
                             !.result = analyzeTrends(calls[c].trends, calls[c].outcome) ] ]
  /\ UNCHANGED <<status, snap, isRunning, apifyToken>>

AnalyzeNext ==
  \E c \in Calls :
    \/ \E trends \in TrendInputs, outcome \in AIOutcomes : AnalyzeCalled(c, trends, outcome)
    \/ AnalyzeSettled(c)

SpecAnalyze == AnalyzeInit /\ [][AnalyzeNext]_vars

\* The answer holds an analysis for record k of the list.
Covered(trends, outcome, k) ==
  /\ outcome.kind = "object"
  /\ TrendAnalysis(outcome.parsed, trends[k], k - 1).truthy

C30_UnknownNameChangesNothing ==
  /\ \A name \in UpdateNames :
       FindSourceIndex(status.sources, name) = 0
         => \A a \in UpdateArgs :
              updateSourceProgress(status, name, a[1], a[2], a[3], a[4], a[5]) = status
  /\ Len(status.sources) = 0 => status = EmptyStatus

\* C30 witness: a run made without initializeScraping has issued the updates
\* of all its sources, the first of which failed, and the tracker is in its
\* initial state.
C30_Witness ==
  /\ status = EmptyStatus
  /\ \E c \in Calls :
       /\ calls[c].kind = "direct" /\ calls[c].pc = "report"
       /\ Len(calls[c].issued) = Len(Sources)
       /\ calls[c].issued[1].status = "failed"

====
